---- MODULE Spec2Model ----
(***************************************************************************)
(* Model of src/dns/dns_server.py: a caching, forwarding DNS proxy.        *)
(*                                                                         *)
(* Threads: the main thread (run_dns_server), the sweep thread             *)
(* (cleanup_cache) and one thread per dispatched request (handle_request). *)
(* Shared state: the module-level dict `cache`, the lock `cache_lock` and  *)
(* the snapshot file CACHE_FILE.  Time is the value time.time() returns.   *)
(***************************************************************************)
EXTENDS Integers, Sequences, FiniteSets, TLC

\* ------------------------------------------------------------------ bounds
NumHandlers == 2    \* request threads one process run may start
MaxTime == 1        \* time.time() ranges over 0..MaxTime
MaxTtl == 2         \* record ttl ranges over 0..MaxTtl
MaxAnswers == 1     \* answer records in one upstream reply
MaxRestarts == 1    \* process restarts after run_dns_server has ended
RestartRequests == 1 \* request threads started in a behaviour with restarts
FaultRequests == 1  \* request threads started in a behaviour with failing writes

\* ------------------------------------------------------------ value spaces
Names == {"a"}
Types == {1, 5}          \* A and CNAME
QueryTypes == {1}        \* the type clients ask for
Ttls == {0, MaxTtl}      \* ttl of the records the upstream returns
Tids == {7}
Datas == {"d"}

MainT == <<"main", 0>>
SweepT == <<"sweep", 0>>
NoThread == <<"none", 0>>
Handlers == {<<"h", i>> : i \in 1..NumHandlers}
Threads == {MainT, SweepT} \cup Handlers

\* A resource record as the codec hands it to the cache (name, type, data, ttl).
Records == [name : Names, type : Types, data : Datas, ttl : Ttls]

\* A datagram received on the listening socket: a well-formed query or a
\* packet that does not decode.
BadPacket == [kind |-> "bad"]
Queries == [kind : {"query"}, tid : Tids, qtype : QueryTypes, qname : Names]
Packets == Queries \cup {BadPacket}

RECURSIVE SeqsUpTo(_, _)
SeqsUpTo(S, n) ==
    IF n = 0 THEN {<<>>}
    ELSE LET shorter == SeqsUpTo(S, n - 1)
         IN shorter \cup {Append(s, x) : s \in {t \in shorter : Len(t) = n - 1}, x \in S}

\* What the upstream resolver may answer to the query q.
UpstreamReplies(q) ==
    {[kind |-> "response", tid |-> q.tid, qtype |-> q.qtype, qname |-> q.qname,
      answers |-> a] : a \in SeqsUpTo(Records, MaxAnswers)}

NoPacket == [kind |-> "none"]

\* --------------------------------------------------------------- wire codec
\* utils.parse_dns_response: (name, type, tid) of the first question; raises
\* on a packet that does not decode.
parse_ok(data) == data.kind = "query"
parse_dns_response(data) == <<data.qname, data.qtype, data.tid>>

\* utils.extract_records: one record per answer of the reply.
extract_records(response) ==
    IF response.kind = "response" THEN response.answers ELSE <<>>

\* utils.build_dns_response: header with the caller's transaction id, the
\* question of the original query, one answer per cached entry carrying the
\* entry's stored name/type/ttl/data.
build_dns_response(tid, data, valid_records, query_name, query_type) ==
    [kind |-> "response", tid |-> tid, qtype |-> data.qtype, qname |-> data.qname,
     answers |-> [i \in 1..Len(valid_records) |->
                    [name |-> valid_records[i].name, type |-> valid_records[i].type,
                     data |-> valid_records[i].data, ttl |-> valid_records[i].ttl]]]

\* -------------------------------------------------------------- cache store
\* key = f"{query_type}:{query_name}"
KeyOf(type, name) == <<type, name>>
Keys == {KeyOf(t, n) : t \in Types, n \in Names}

\* now - r['timestamp'] < r['ttl']
BadLive(r, now) == now - r.timestamp <= r.ttl
Live(r, now) == now - r.timestamp < r.ttl

FilterLive(s, now) == SelectSeq(s, LAMBDA r : Live(r, now))

\* [r for r in cache.get(key, []) if now - r['timestamp'] < r['ttl']]
ValidRecords(c, key, now) ==
    IF key \in DOMAIN c THEN FilterLive(c[key], now) ELSE <<>>

\* if key in cache: del cache[key]
BadDelKey(c, key) == c
DelKey(c, key) == [k \in DOMAIN c \ {key} |-> c[k]]

\* The loop of cleanup_cache: every key keeps its live entries, a key left
\* with none is deleted.
KeepKeysSweepExpired(c, now) == [k \in DOMAIN c |-> FilterLive(c[k], now)]
BadSweepExpired(c, now) ==
    [k \in {j \in DOMAIN c : \E i \in 1..Len(c[j]) : Live(c[j][i], now)} |-> c[k]]
SweepExpired(c, now) ==
    [k \in {j \in DOMAIN c : FilterLive(c[j], now) # <<>>} |-> FilterLive(c[k], now)]

\* The same loop in load_cache, over the parsed snapshot.
KeepKeysLoadExpired(r, now) == [k \in DOMAIN r |-> FilterLive(r[k], now)]
BadLoadExpired(r, now) ==
    [k \in {j \in DOMAIN r :
                \E i \in 1..Len(r[j]) : now - r[j][i].timestamp <= r[j][i].ttl} |->
        SelectSeq(r[k], LAMBDA e : now - e.timestamp <= e.ttl)]
LoadExpired(r, now) ==
    [k \in {j \in DOMAIN r : FilterLive(r[j], now) # <<>>} |-> FilterLive(r[k], now)]

\* The dict appended to the key's list in handle_request.
MakeEntry(rec, now) ==
    [name |-> rec.name, type |-> rec.type, data |-> rec.data, ttl |-> rec.ttl,
     timestamp |-> now]

\* cache.setdefault(k, []).append(entry)
DedupCacheInsert(c, k, e) ==
    [j \in DOMAIN c \cup {k} |->
        IF j # k THEN c[j]
        ELSE IF k \notin DOMAIN c THEN <<e>>
        ELSE IF \E i \in 1..Len(c[k]) : c[k][i].data = e.data THEN c[k]
        ELSE Append(c[k], e)]
BadCacheInsert(c, k, e) ==
    [j \in DOMAIN c \cup {k} |-> IF j = k THEN <<e>> ELSE c[j]]
CacheInsert(c, k, e) ==
    [j \in DOMAIN c \cup {k} |->
        IF j = k THEN Append(IF k \in DOMAIN c THEN c[k] ELSE <<>>, e) ELSE c[j]]

EmptyCache == [k \in {} |-> <<>>]

\* ------------------------------------------------------------ snapshot file
\* The content of CACHE_FILE: absent, text json.load rejects (an empty or
\* truncated file included), JSON of another shape than key -> list of
\* entries, or the JSON object json.dump wrote.
FileMissing == [kind |-> "missing"]
FileCorrupt == [kind |-> "corrupt"]
FileBadShape == [kind |-> "badshape"]

\* json.dump(cache, f): one member per key, the key's list as its value.
RECURSIVE DumpItems(_, _)
DumpItems(c, ks) ==
    IF ks = {} THEN <<>>
    ELSE LET k == CHOOSE x \in ks : \A y \in ks : x[1] <= y[1]
         IN <<[key |-> k, value |-> c[k]]>> \o DumpItems(c, ks \ {k})
BadJsonDump(c) ==
    [kind |-> "json",
     items |-> DumpItems([k \in DOMAIN c |-> SubSeq(c[k], 1, 1)], DOMAIN c)]
json_dump(c) == [kind |-> "json", items |-> DumpItems(c, DOMAIN c)]

\* json.load(f): the dict of the object's members (the last member of a
\* repeated key wins).
json_load(f) ==
    [k \in {f.items[i].key : i \in 1..Len(f.items)} |->
        LET last == CHOOSE i \in 1..Len(f.items) :
                        /\ f.items[i].key = k
                        /\ \A j \in 1..Len(f.items) : f.items[j].key = k => j <= i
        IN f.items[last].value]

\* -------------------------------------------------------------------- state
VARIABLES
    clock,        \* the value time.time() returns
    file,         \* content of CACHE_FILE
    cache,        \* the dict `cache`
    cache_lock,   \* the thread holding cache_lock, or NoThread
    pc,           \* each thread's position in its function
    raw,          \* load_cache: the parsed snapshot
    lnow,         \* load_cache: now
    snow,         \* cleanup_cache: now
    mdata,        \* run_dns_server: the datagram recvfrom returned
    dispatched,   \* request threads this process has started
    loc,          \* handle_request: the locals of each request thread
    obs,          \* per request thread: datagrams it sent and how it ended
    saved,        \* the map the last completed save_cache serialized
    budget        \* datagrams still to arrive, restarts still to happen

vars == <<clock, file, cache, cache_lock, pc, raw, lnow, snow, mdata,
          dispatched, loc, obs, saved, budget>>

NoKey == <<0, "">>
InitLoc ==
    [data |-> NoPacket, key |-> NoKey, now |-> 0, valid_records |-> <<>>,
     response |-> NoPacket, records |-> <<>>, idx |-> 0]
\* obs[h] records what the thread did: sent (datagrams to the client),
\* upstream (datagrams to the upstream resolver), outcome (how it ended),
\* before (the map when the thread last acquired cache_lock), stamps
\* (time.time() at each append).
InitObs ==
    [sent |-> <<>>, upstream |-> <<>>, outcome |-> "none",
     before |-> EmptyCache, stamps |-> <<>>]
\* saved.fresh: no time has elapsed since that save_cache; lfresh: that was so
\* when load_cache read the clock.
InitSaved == [map |-> EmptyCache, fresh |-> FALSE, lfresh |-> FALSE]

\* A snapshot an earlier run left behind: one entry, written at time 0.
OldSnapshots ==
    {json_dump([k \in {KeyOf(r.type, r.name)} |-> <<MakeEntry(r, 0)>>]) :
        r \in [name : Names, type : QueryTypes, data : Datas, ttl : {1}]}
InitFiles == {FileMissing, FileCorrupt, FileBadShape} \cup OldSnapshots

InitPc == [t \in Threads |->
             IF t = MainT THEN "load_open" ELSE IF t = SweepT THEN "off" ELSE "idle"]

InitCommon ==
    /\ clock = 0
    /\ file \in InitFiles
    /\ cache = EmptyCache
    /\ cache_lock = NoThread
    /\ pc = InitPc
    /\ raw = EmptyCache
    /\ lnow = 0
    /\ snow = 0
    /\ mdata = NoPacket
    /\ dispatched = 0
    /\ loc = [h \in Handlers |-> InitLoc]
    /\ obs = [h \in Handlers |-> InitObs]
    /\ saved = InitSaved

Init ==
    /\ InitCommon
    /\ budget = [requests |-> NumHandlers, restarts |-> 0]

\* time.time() advances
Tick ==
    /\ clock < MaxTime
    /\ clock' = clock + 1
    /\ saved' = [saved EXCEPT !.fresh = FALSE]
    /\ UNCHANGED <<file, cache, cache_lock, pc, raw, lnow, snow, mdata,
                   dispatched, loc, obs, budget>>

Goto(t, where) == [pc EXCEPT ![t] = where]

\* the holder of cache_lock once an exception has left a `with cache_lock`
\* block entered by thread t
BadLockAfterRaise(t) == t
LockAfterRaise(t) == NoThread

\* ---------------------------------------------------------------- load_cache
\* open(CACHE_FILE), json.load, now = time.time()
LoadOpen ==
    /\ pc[MainT] = "load_open"
    /\ \/ /\ file.kind = "missing"
          /\ pc' = Goto(MainT, "load_nofile")
          /\ UNCHANGED <<raw, lnow, saved>>
       \/ /\ file.kind = "corrupt"
          /\ pc' = Goto(MainT, "load_corrupt")
          /\ UNCHANGED <<raw, lnow, saved>>
       \/ /\ file.kind = "badshape"
          /\ pc' = Goto(MainT, "load_acq_bad")
          /\ lnow' = clock
          /\ UNCHANGED <<raw, saved>>
       \/ /\ file.kind = "json"
          /\ pc' = Goto(MainT, "load_acq")
          /\ raw' = json_load(file)
          /\ lnow' = clock
          /\ saved' = [saved EXCEPT !.lfresh = saved.fresh]
    /\ UNCHANGED <<clock, file, cache, cache_lock, snow, mdata, dispatched, loc,
                   obs, budget>>

\* with cache_lock: the filter loop over raw, then cache = raw
LoadInstall ==
    /\ pc[MainT] = "load_acq"
    /\ cache_lock = NoThread
    /\ cache' = LoadExpired(raw, lnow)
    /\ pc' = Goto(MainT, "load_print")
    /\ UNCHANGED <<clock, file, cache_lock, raw, lnow, snow, mdata, dispatched,
                   loc, obs, saved, budget>>

\* with cache_lock: the loop raises on a snapshot of another shape; nothing
\* in load_cache or in run_dns_server catches it
LoadBadShape ==
    /\ pc[MainT] = "load_acq_bad"
    /\ cache_lock = NoThread
    /\ pc' = Goto(MainT, "crashed")
    /\ UNCHANGED <<clock, file, cache, cache_lock, raw, lnow, snow, mdata,
                   dispatched, loc, obs, saved, budget>>

\* print(... len(cache)), after the lock is released
LoadPrint ==
    /\ pc[MainT] = "load_print"
    /\ pc' = Goto(MainT, "start_sweep")
    /\ UNCHANGED <<clock, file, cache, cache_lock, raw, lnow, snow, mdata,
                   dispatched, loc, obs, saved, budget>>

\* except FileNotFoundError / json.JSONDecodeError: cache = {}
LoadFailed ==
    /\ pc[MainT] \in {"load_nofile", "load_corrupt"}
    /\ cache' = EmptyCache
    /\ pc' = Goto(MainT, "start_sweep")
    /\ UNCHANGED <<clock, file, cache_lock, raw, lnow, snow, mdata, dispatched,
                   loc, obs, saved, budget>>

\* ----------------------------------------------------------- run_dns_server
\* threading.Thread(target=cleanup_cache, daemon=True).start()
StartSweep ==
    /\ pc[MainT] = "start_sweep"
    /\ pc' = [pc EXCEPT ![MainT] = "bind", ![SweepT] = "sleep"]
    /\ UNCHANGED <<clock, file, cache, cache_lock, raw, lnow, snow, mdata,
                   dispatched, loc, obs, saved, budget>>

\* sock.bind: succeeds, or raises and control reaches the finally clause
Bind ==
    /\ pc[MainT] = "bind"
    /\ \/ pc' = Goto(MainT, "recv")
       \/ pc' = Goto(MainT, "save_acq")
    /\ UNCHANGED <<clock, file, cache, cache_lock, raw, lnow, snow, mdata,
                   dispatched, loc, obs, saved, budget>>

\* data, addr = sock.recvfrom(BUFFER_SIZE)
Recv ==
    /\ pc[MainT] = "recv"
    /\ budget.requests > 0
    /\ dispatched < NumHandlers
    /\ budget' = [budget EXCEPT !.requests = budget.requests - 1]
    /\ \E d \in Packets : mdata' = d
    /\ pc' = Goto(MainT, "dispatch")
    /\ UNCHANGED <<clock, file, cache, cache_lock, raw, lnow, snow, dispatched,
                   loc, obs, saved>>

\* recvfrom raises (or the process is interrupted): the finally clause runs
RecvFail ==
    /\ pc[MainT] = "recv"
    /\ pc' = Goto(MainT, "save_acq")
    /\ UNCHANGED <<clock, file, cache, cache_lock, raw, lnow, snow, mdata,
                   dispatched, loc, obs, saved, budget>>

\* threading.Thread(target=handle_request, args=(data, addr, sock)).start()
Dispatch ==
    /\ pc[MainT] = "dispatch"
    /\ LET h == <<"h", dispatched + 1>>
       IN /\ pc' = [pc EXCEPT ![MainT] = "recv", ![h] = "parse"]
          /\ loc' = [loc EXCEPT ![h] = [InitLoc EXCEPT !.data = mdata]]
    /\ dispatched' = dispatched + 1
    /\ mdata' = NoPacket
    /\ UNCHANGED <<clock, file, cache, cache_lock, raw, lnow, snow, obs, saved,
                   budget>>

\* ---------------------------------------------------------------- save_cache
\* called by cleanup_cache after each pass and by run_dns_server's finally
Savers == {MainT, SweepT}

\* with cache_lock: open(CACHE_FILE, 'w') truncates the file
SaveOpen(t) ==
    /\ pc[t] = "save_acq"
    /\ cache_lock = NoThread
    /\ cache_lock' = t
    /\ file' = FileCorrupt
    /\ pc' = Goto(t, "save_dump")
    /\ UNCHANGED <<clock, cache, raw, lnow, snow, mdata, dispatched, loc, obs,
                   saved, budget>>

\* the holder of cache_lock once save_cache has left its with block
BadLockAfterSave(t) == t
LockAfterSave(t) == NoThread

\* json.dump(cache, f); the file is closed and the lock released
SaveDump(t) ==
    /\ pc[t] = "save_dump"
    /\ file' = json_dump(cache)
    /\ saved' = [saved EXCEPT !.map = cache, !.fresh = TRUE]
    /\ cache_lock' = LockAfterSave(t)
    /\ pc' = Goto(t, IF t = MainT THEN "exited" ELSE "s_print")
    /\ UNCHANGED <<clock, cache, raw, lnow, snow, mdata, dispatched, loc, obs,
                   budget>>

\* ------------------------------------------------------------- cleanup_cache
\* time.sleep(60) returns; now = time.time()
SweepWake ==
    /\ pc[SweepT] = "sleep"
    /\ snow' = clock
    /\ pc' = Goto(SweepT, "s_acq")
    /\ UNCHANGED <<clock, file, cache, cache_lock, raw, lnow, mdata, dispatched,
                   loc, obs, saved, budget>>

\* the statement after the with block of cleanup_cache: save_cache()
BadAfterPass == "s_print"
AfterPass == "save_acq"

\* with cache_lock: the loop over list(cache); save_cache() is next
SweepPass ==
    /\ pc[SweepT] = "s_acq"
    /\ cache_lock = NoThread
    /\ cache' = SweepExpired(cache, snow)
    /\ pc' = Goto(SweepT, AfterPass)
    /\ UNCHANGED <<clock, file, cache_lock, raw, lnow, snow, mdata, dispatched,
                   loc, obs, saved, budget>>

\* print(... len(cache)), after save_cache has returned
SweepPrint ==
    /\ pc[SweepT] = "s_print"
    /\ pc' = Goto(SweepT, "sleep")
    /\ UNCHANGED <<clock, file, cache, cache_lock, raw, lnow, snow, mdata,
                   dispatched, loc, obs, saved, budget>>

\* ------------------------------------------------------------ handle_request
QName(data) == parse_dns_response(data)[1]
QType(data) == parse_dns_response(data)[2]
QTid(data) == parse_dns_response(data)[3]

\* handle_request is about to return: how it ended
Finish(h, how) == [obs EXCEPT ![h].outcome = how]

\* where control goes after parse_dns_response(data): the next statement, or
\* the except clause when it raises
BadParseTarget(data) == "acq_check"
ParseTarget(data) == IF parse_ok(data) THEN "acq_check" ELSE "ret"

\* parse_dns_response(data); key = ...; now = time.time()
HParse(h) ==
    /\ pc[h] = "parse"
    /\ LET ok == parse_ok(loc[h].data)
           key == IF ok THEN KeyOf(QType(loc[h].data), QName(loc[h].data))
                  ELSE NoKey
       IN loc' = [loc EXCEPT ![h].key = key,
                             ![h].now = IF ok THEN clock ELSE loc[h].now]
    /\ obs' = IF ParseTarget(loc[h].data) = "ret" THEN Finish(h, "decode_error")
              ELSE obs
    /\ pc' = Goto(h, ParseTarget(loc[h].data))
    /\ UNCHANGED <<clock, file, cache, cache_lock, raw, lnow, snow, mdata,
                   dispatched, saved, budget>>

\* if valid_records: ... else: if key in cache: del cache[key]
BadCacheAfterCheck(c, key, valid) == DelKey(c, key)
NoDelCacheAfterCheck(c, key, valid) == c
CacheAfterCheck(c, key, valid) == IF valid # <<>> THEN c ELSE DelKey(c, key)

\* the holder of cache_lock after the check: the hit branch builds and sends
\* inside the with block, the miss branch leaves it
BadLockAfterCheck(h, valid) == h
LockAfterCheck(h, valid) == IF valid # <<>> THEN h ELSE NoThread

\* the statement the check continues with: the hit branch's send, or the
\* upstream exchange after the with block
BadAfterCheck(valid) == "up_send"
AfterCheck(valid) == IF valid # <<>> THEN "hit_send" ELSE "up_send"

\* with cache_lock: valid_records = [...]; on a hit the response is built,
\* on a miss the key is deleted and the with block is left
HCheck(h) ==
    /\ pc[h] = "acq_check"
    /\ cache_lock = NoThread
    /\ LET valid == ValidRecords(cache, loc[h].key, loc[h].now)
       IN /\ loc' = [loc EXCEPT
                       ![h].valid_records = valid,
                       ![h].response =
                           IF valid # <<>> /\ parse_ok(loc[h].data)
                           THEN build_dns_response(QTid(loc[h].data), loc[h].data,
                                    valid, QName(loc[h].data), QType(loc[h].data))
                           ELSE NoPacket]
          /\ cache' = CacheAfterCheck(cache, loc[h].key, valid)
          /\ cache_lock' = LockAfterCheck(h, valid)
          /\ pc' = Goto(h, AfterCheck(valid))
    /\ obs' = [obs EXCEPT ![h].before = cache]
    /\ UNCHANGED <<clock, file, raw, lnow, snow, mdata, dispatched, saved, budget>>

\* sock.sendto(response, addr); return  -- leaving the with block
HHitSend(h) ==
    /\ pc[h] = "hit_send"
    /\ obs' = [Finish(h, "hit") EXCEPT ![h].sent = Append(obs[h].sent, loc[h].response)]
    /\ UNCHANGED loc
    /\ cache_lock' = NoThread
    /\ pc' = Goto(h, "ret")
    /\ UNCHANGED <<clock, file, cache, raw, lnow, snow, mdata, dispatched, saved,
                   budget>>

\* sendto raises inside the with block: the lock is released on the way to
\* the except clause
HHitFail(h) ==
    /\ pc[h] = "hit_send"
    /\ obs' = Finish(h, "hit_error")
    /\ UNCHANGED loc
    /\ cache_lock' = LockAfterRaise(h)
    /\ pc' = Goto(h, "ret")
    /\ UNCHANGED <<clock, file, cache, raw, lnow, snow, mdata, dispatched, saved,
                   budget>>

\* upstream = socket.socket(...); settimeout(5); upstream.sendto(data, ...)
HUpSend(h) ==
    /\ pc[h] = "up_send"
    /\ obs' = [obs EXCEPT ![h].upstream = Append(obs[h].upstream, loc[h].data)]
    /\ pc' = Goto(h, "up_recv")
    /\ UNCHANGED <<clock, file, cache, cache_lock, raw, lnow, snow, mdata,
                   dispatched, loc, saved, budget>>

\* response, _ = upstream.recvfrom(BUFFER_SIZE)
HUpRecv(h) ==
    /\ pc[h] = "up_recv"
    /\ \E r \in UpstreamReplies(loc[h].data) :
           loc' = [loc EXCEPT ![h].response = r]
    /\ pc' = Goto(h, "relay")
    /\ UNCHANGED <<clock, file, cache, cache_lock, raw, lnow, snow, mdata,
                   dispatched, obs, saved, budget>>

\* the socket call raises or recvfrom times out: except clause, return
HUpFail(h) ==
    /\ pc[h] \in {"up_send", "up_recv"}
    /\ obs' = Finish(h, "upstream_error")
    /\ UNCHANGED loc
    /\ pc' = Goto(h, "ret")
    /\ UNCHANGED <<clock, file, cache, cache_lock, raw, lnow, snow, mdata,
                   dispatched, saved, budget>>

\* sock.sendto(response, addr); records = extract_records(response)
HRelay(h) ==
    /\ pc[h] = "relay"
    /\ obs' = [obs EXCEPT ![h].sent = Append(obs[h].sent, loc[h].response)]
    /\ loc' = [loc EXCEPT ![h].records = extract_records(loc[h].response)]
    /\ pc' = Goto(h, "acq_insert")
    /\ UNCHANGED <<clock, file, cache, cache_lock, raw, lnow, snow, mdata,
                   dispatched, saved, budget>>

\* sock.sendto raises: except clause, return
HRelayFail(h) ==
    /\ pc[h] = "relay"
    /\ obs' = Finish(h, "relay_error")
    /\ UNCHANGED loc
    /\ pc' = Goto(h, "ret")
    /\ UNCHANGED <<clock, file, cache, cache_lock, raw, lnow, snow, mdata,
                   dispatched, saved, budget>>

\* with cache_lock:  (the cache update)
HAcquireInsert(h) ==
    /\ pc[h] = "acq_insert"
    /\ cache_lock = NoThread
    /\ cache_lock' = h
    /\ loc' = [loc EXCEPT ![h].idx = 1]
    /\ obs' = [obs EXCEPT ![h].before = cache]
    /\ pc' = Goto(h, "insert")
    /\ UNCHANGED <<clock, file, cache, raw, lnow, snow, mdata, dispatched, saved,
                   budget>>

\* one iteration of: for rec in records: cache.setdefault(k, []).append({...})
HInsert(h) ==
    /\ pc[h] = "insert"
    /\ loc[h].idx <= Len(loc[h].records)
    /\ LET rec == loc[h].records[loc[h].idx]
       IN cache' = CacheInsert(cache, KeyOf(rec.type, rec.name), MakeEntry(rec, clock))
    /\ loc' = [loc EXCEPT ![h].idx = loc[h].idx + 1]
    /\ obs' = [obs EXCEPT ![h].stamps = Append(obs[h].stamps, clock)]
    /\ UNCHANGED <<clock, file, cache_lock, pc, raw, lnow, snow, mdata, dispatched,
                   saved, budget>>

\* the loop is over: the with block is left and handle_request returns
HInsertDone(h) ==
    /\ pc[h] = "insert"
    /\ loc[h].idx > Len(loc[h].records)
    /\ obs' = Finish(h, "miss_ok")
    /\ UNCHANGED loc
    /\ cache_lock' = NoThread
    /\ pc' = Goto(h, "ret")
    /\ UNCHANGED <<clock, file, cache, raw, lnow, snow, mdata, dispatched, saved,
                   budget>>

\* handle_request returns and the thread ends: its locals are gone
HReturn(h) ==
    /\ pc[h] = "ret"
    /\ loc' = [loc EXCEPT ![h] = InitLoc]
    /\ obs' = [obs EXCEPT ![h] = [InitObs EXCEPT !.outcome = obs[h].outcome]]
    /\ pc' = Goto(h, "done")
    /\ UNCHANGED <<clock, file, cache, cache_lock, raw, lnow, snow, mdata,
                   dispatched, saved, budget>>

\* ------------------------------------------------------------------ process
\* run_dns_server has returned and every request thread has ended: the
\* process ends, which also ends the daemon thread wherever it is
ProcessExit ==
    /\ pc[MainT] = "exited"
    /\ \A h \in Handlers : pc[h] \in {"idle", "done"}
    /\ pc' = [pc EXCEPT ![MainT] = "dead", ![SweepT] = "off"]
    /\ cache_lock' = NoThread
    /\ UNCHANGED <<clock, file, cache, raw, lnow, snow, mdata, dispatched, loc,
                   obs, saved, budget>>

\* the program is started again: module state is fresh, the file remains
Restart ==
    /\ pc[MainT] = "dead"
    /\ budget.restarts > 0
    /\ budget' = [budget EXCEPT !.restarts = budget.restarts - 1]
    /\ pc' = InitPc
    /\ cache' = EmptyCache
    /\ raw' = EmptyCache
    /\ lnow' = 0
    /\ snow' = 0
    /\ dispatched' = 0
    /\ loc' = [h \in Handlers |-> InitLoc]
    /\ obs' = [h \in Handlers |-> InitObs]
    /\ UNCHANGED <<clock, file, cache_lock, mdata, saved>>

Next ==
    \/ Tick
    \/ LoadOpen \/ LoadInstall \/ LoadBadShape \/ LoadPrint \/ LoadFailed
    \/ StartSweep \/ Bind \/ Recv \/ RecvFail \/ Dispatch
    \/ \E t \in Savers : SaveOpen(t) \/ SaveDump(t)
    \/ SweepWake \/ SweepPass \/ SweepPrint
    \/ \E h \in Handlers :
          \/ HParse(h) \/ HCheck(h) \/ HHitSend(h) \/ HHitFail(h)
          \/ HUpSend(h) \/ HUpRecv(h) \/ HUpFail(h)
          \/ HRelay(h) \/ HRelayFail(h)
          \/ HAcquireInsert(h) \/ HInsert(h) \/ HInsertDone(h) \/ HReturn(h)
    \/ ProcessExit

Spec == Init /\ [][Next]_vars

\* Behaviours in which the program is stopped and started again.
InitRestart ==
    /\ InitCommon
    /\ budget = [requests |-> RestartRequests, restarts |-> MaxRestarts]

NextRestart == Next \/ Restart

SpecRestart == InitRestart /\ [][NextRestart]_vars

\* save_cache raises: open(CACHE_FILE, 'w') fails, or json.dump fails after
\* the file was truncated.  The with statement releases the lock; nothing in
\* cleanup_cache catches the exception, so the sweep thread ends; in
\* run_dns_server it leaves the finally clause and the function.
SaveFail(t) ==
    /\ \/ /\ pc[t] = "save_acq"
          /\ cache_lock = NoThread
          /\ UNCHANGED cache_lock
       \/ /\ pc[t] = "save_dump"
          /\ cache_lock' = LockAfterRaise(t)
    /\ pc' = Goto(t, IF t = MainT THEN "exited" ELSE "s_dead")
    /\ UNCHANGED <<clock, file, cache, raw, lnow, snow, mdata, dispatched, loc,
                   obs, saved, budget>>

\* Behaviours in which writing the snapshot can fail, with every thread
\* scheduled fairly: a thread that can take a step takes one, and a thread
\* blocked on cache_lock gets it if the lock is free again and again (the
\* sweep thread leaves it free for 60 seconds at a time).
InitFaults ==
    /\ InitCommon
    /\ budget = [requests |-> FaultRequests, restarts |-> 0]

NextFaults == Next \/ \E t \in Savers : SaveFail(t)

Fairness ==
    /\ WF_vars(LoadOpen \/ LoadInstall \/ LoadBadShape \/ LoadPrint \/ LoadFailed)
    /\ WF_vars(StartSweep \/ Bind \/ Dispatch)
    /\ WF_vars(ProcessExit)
    /\ WF_vars(SweepWake \/ SweepPrint)
    /\ SF_vars(SweepPass)
    /\ \A t \in Savers : SF_vars(SaveOpen(t)) /\ WF_vars(SaveDump(t))
    /\ \A h \in Handlers :
          /\ WF_vars(HParse(h) \/ HHitSend(h) \/ HUpSend(h) \/ HUpRecv(h) \/ HRelay(h)
                       \/ HInsert(h) \/ HInsertDone(h) \/ HReturn(h))
          /\ SF_vars(HCheck(h))
          /\ SF_vars(HAcquireInsert(h))

SpecFaults == InitFaults /\ [][NextFaults]_vars /\ Fairness

\* The same scheduling when no write fails.
SpecFair == InitFaults /\ [][Next]_vars /\ Fairness

\* ================================================================== claims
Range(q) == {q[i] : i \in 1..Len(q)}

\* the step in which thread h performs its cache check
CheckStep(h) == pc[h] = "acq_check" /\ pc'[h] \in {"hit_send", "up_send"}

\* C1: round-trip liveness.  A cache check made with now = T' serves every
\* entry stored under its key that was inserted at some T <= T' with
\* T' < T + ttl, serves no entry with T' >= T + ttl, and in particular never
\* serves an entry whose ttl is 0.
C1_RoundTripLiveness ==
    [][\A h \in Handlers :
          CheckStep(h) =>
             /\ \A e \in Range(IF loc[h].key \in DOMAIN cache
                               THEN cache[loc[h].key] ELSE <<>>) :
                    (e.timestamp <= loc[h].now /\ loc[h].now < e.timestamp + e.ttl)
                       => e \in Range(loc'[h].valid_records)
             /\ \A e \in Range(loc'[h].valid_records) :
                    /\ ~(loc[h].now >= e.timestamp + e.ttl)
                    /\ e.ttl # 0]_vars

\* the step in which the sweep thread performs one pass over the map
SweepStep == pc[SweepT] = "s_acq" /\ pc'[SweepT] = "save_acq"

AllEntries(c) == UNION {Range(c[k]) : k \in DOMAIN c}

InIO(t) ==
    \/ t \in Handlers /\ pc[t] \in {"hit_send", "up_send", "up_recv", "relay"}
    \/ t \in Savers /\ pc[t] = "save_dump"
    \/ t = MainT /\ pc[t] \in {"load_open", "recv"}

\* C3 as stated: no thread is inside a socket send/receive or a snapshot
\* file write while it holds cache_lock.
C3_NoLockDuringIO == \A t \in Threads : InIO(t) => cache_lock # t

\* C3 as amended: a thread inside an I/O call holds cache_lock only when that
\* call is the cache-hit sendto of handle_request or the file write of
\* save_cache; the upstream exchange, the relay of the upstream reply, the
\* listening receive and the snapshot read run without the lock.
C3_LockOnlyAroundHitSendAndSave ==
    \A t \in Threads :
        (InIO(t) /\ cache_lock = t) => pc[t] \in {"hit_send", "save_dump"}

\* One request thread waits for the upstream reply without the lock while
\* another one holds the lock in its insert loop.
C3_Witness ==
    \E h, g \in Handlers :
        /\ pc[h] = "up_recv"
        /\ pc[g] = "insert"
        /\ cache_lock = g

\* thread t is at a statement that reads or writes the dict `cache`
AccessesCache(t) ==
    \/ t \in Handlers /\ pc[t] = "insert"
    \/ t \in Savers /\ pc[t] = "save_dump"
    \/ t = MainT /\ pc[t] \in {"load_print", "load_nofile", "load_corrupt"}
    \/ t = SweepT /\ pc[t] = "s_print"

\* some thread other than t has been started and has not ended
OthersRunning(t) ==
    \E u \in Threads \ {t} : pc[u] \notin {"off", "idle", "done", "dead", "crashed"}

\* C4: every access to the cache map is made while holding cache_lock (stated
\* for the accesses made while another thread runs).
C4_AccessUnderLock ==
    \A t \in Threads : (AccessesCache(t) /\ OthersRunning(t)) => cache_lock = t

\* the map m without its entries of ttl 0 and without the keys that leaves empty
DropTtlZero(m) ==
    [k \in {j \in DOMAIN m : \E e \in Range(m[j]) : e.ttl # 0} |->
        SelectSeq(m[k], LAMBDA e : e.ttl # 0)]

\* the map m without its entries already expired at time t
DropExpiredAt(m, t) ==
    [k \in {j \in DOMAIN m : \E e \in Range(m[j]) : t < e.timestamp + e.ttl} |->
        SelectSeq(m[k], LAMBDA e : t < e.timestamp + e.ttl)]

\* load_cache has installed a snapshot that save_cache wrote with no time
\* elapsed in between
LoadedFreshSnapshot == pc[MainT] = "load_print" /\ saved.lfresh

\* C5 as stated: save_cache followed at once by load_cache installs the saved
\* map minus its entries of ttl 0 (and the keys left empty).
C5_PersistLoadModuloTtlZero ==
    LoadedFreshSnapshot => cache = DropTtlZero(saved.map)

\* C5 as amended: save_cache followed at once by load_cache installs the saved
\* map minus every entry already expired at that instant (now - timestamp >=
\* ttl, which covers ttl 0) and minus the keys left empty.
C5_PersistLoadKeepsLive ==
    LoadedFreshSnapshot => cache = DropExpiredAt(saved.map, lnow)

\* The saved map held an expired entry of non-zero ttl, which the load dropped.
C5_Witness ==
    /\ LoadedFreshSnapshot
    /\ \E e \in AllEntries(saved.map) : e.ttl # 0 /\ e \notin AllEntries(cache)

\* the entries the records recs, appended at the times at, add under key k
NewEntries(recs, at, k) ==
    LET pairs == [i \in 1..Len(recs) |-> [rec |-> recs[i], at |-> at[i]]]
        mine == SelectSeq(pairs, LAMBDA p : <<p.rec.type, p.rec.name>> = k)
    IN [i \in 1..Len(mine) |->
           [name |-> mine[i].rec.name, type |-> mine[i].rec.type,
            data |-> mine[i].rec.data, ttl |-> mine[i].rec.ttl,
            timestamp |-> mine[i].at]]

EntriesOf(c, k) == IF k \in DOMAIN c THEN c[k] ELSE <<>>

\* thread h has run its insert loop to the end and still holds the lock
MissDone(h) == pc[h] = "insert" /\ loc[h].idx > Len(loc[h].records)

\* C6: miss path.  A request that found no live entry and got an upstream
\* reply has sent the upstream exactly one datagram, the raw query; has sent
\* the client exactly one datagram, the reply as received; and has appended
\* exactly one entry per extracted record under that record's key, stamped
\* with the time of the append - one new entry under the query's key when the
\* reply holds one record matching the question.
C6_MissPath ==
    \A h \in Handlers :
        MissDone(h) =>
            /\ obs[h].upstream = <<loc[h].data>>
            /\ obs[h].sent = <<loc[h].response>>
            /\ loc[h].records = loc[h].response.answers
            /\ Len(obs[h].stamps) = Len(loc[h].records)
            /\ DOMAIN cache =
                  DOMAIN obs[h].before \cup
                  {<<r.type, r.name>> : r \in Range(loc[h].records)}
            /\ \A k \in DOMAIN cache :
                  cache[k] = EntriesOf(obs[h].before, k) \o
                             NewEntries(loc[h].records, obs[h].stamps, k)
            /\ (/\ Len(loc[h].records) = 1
                /\ <<loc[h].records[1].type, loc[h].records[1].name>> = loc[h].key)
                  => Len(cache[loc[h].key]) =
                        Len(EntriesOf(obs[h].before, loc[h].key)) + 1

\* Scenario A: the map was empty, the reply held one record for the question,
\* and exactly that entry is now stored under the query's key.
C6_Witness ==
    \E h \in Handlers :
        /\ MissDone(h)
        /\ obs[h].before = EmptyCache
        /\ Len(loc[h].records) = 1
        /\ DOMAIN cache = {loc[h].key}
        /\ Len(cache[loc[h].key]) = 1
        /\ cache[loc[h].key][1].ttl = MaxTtl

\* C7: hit path.  A request whose check finds a live entry answers from the
\* cache: the response carries the query's transaction id and exactly the
\* live entries of the key with their stored ttl, the map is left as it was,
\* the upstream is not contacted and the client gets exactly that one datagram.
C7_HitPath ==
    \A h \in Handlers :
        /\ pc[h] = "hit_send" =>
              /\ cache = obs[h].before
              /\ loc[h].valid_records # <<>>
              /\ loc[h].valid_records =
                    SelectSeq(EntriesOf(cache, loc[h].key),
                              LAMBDA e : loc[h].now - e.timestamp < e.ttl)
              /\ loc[h].response.tid = loc[h].data.tid
              /\ loc[h].response.answers =
                    [i \in 1..Len(loc[h].valid_records) |->
                        [name |-> loc[h].valid_records[i].name,
                         type |-> loc[h].valid_records[i].type,
                         data |-> loc[h].valid_records[i].data,
                         ttl |-> loc[h].valid_records[i].ttl]]
              /\ obs[h].sent = <<>>
              /\ obs[h].upstream = <<>>
        /\ (pc[h] = "ret" /\ obs[h].outcome = "hit") =>
              /\ obs[h].sent = <<loc[h].response>>
              /\ obs[h].upstream = <<>>
              /\ obs[h].stamps = <<>>

\* Scenario B: an entry stored at time 0 with ttl 2 was served at time 1 with
\* ttl 2.
C7_Witness ==
    \E h \in Handlers :
        /\ pc[h] = "ret"
        /\ obs[h].outcome = "hit"
        /\ loc[h].now = 1
        /\ Len(loc[h].valid_records) = 1
        /\ loc[h].valid_records[1].timestamp = 0
        /\ Len(obs[h].sent) = 1
        /\ obs[h].sent[1].answers[1].ttl = 2

\* C8: expired lookup.  When the check of thread h finds the query's key in
\* the map with every entry expired at the time h read, that same step
\* removes the key, builds no response, sends nothing, releases the lock and
\* continues on the upstream path, whose exchange has not started yet.
C8_ExpiredLookup ==
    [][\A h \in Handlers :
          (/\ CheckStep(h)
           /\ loc[h].key \in DOMAIN cache
           /\ \A e \in Range(cache[loc[h].key]) :
                 ~(loc[h].now - e.timestamp < e.ttl))
          => /\ loc[h].key \notin DOMAIN cache'
             /\ \A k \in DOMAIN cache \ {loc[h].key} :
                   k \in DOMAIN cache' /\ cache'[k] = cache[k]
             /\ pc'[h] = "up_send"
             /\ loc'[h].valid_records = <<>>
             /\ loc'[h].response = NoPacket
             /\ obs'[h].sent = <<>>
             /\ obs'[h].upstream = <<>>
             /\ cache_lock' # h]_vars

\* Scenario C: a thread is about to contact the upstream, and its check took
\* the query's key, which held only expired entries, out of the map.
C8_Witness ==
    \E h \in Handlers :
        /\ pc[h] = "up_send"
        /\ loc[h].key \in DOMAIN obs[h].before
        /\ obs[h].before[loc[h].key] # <<>>
        /\ loc[h].key \notin DOMAIN cache
        /\ obs[h].upstream = <<>>

\* thread h leaves the decode of an undecodable packet
DecodeFailStep(h) ==
    pc[h] = "parse" /\ pc'[h] # "parse" /\ ~parse_ok(loc[h].data)

\* C9: decode error.  The step that fails to decode a packet ends the request:
\* nothing is sent to the client or the upstream, the lock is not taken, the
\* map is not changed, and the listener and every other thread stay where
\* they were.
C9_DecodeError ==
    [][\A h \in Handlers :
          DecodeFailStep(h) =>
             /\ pc'[h] = "ret"
             /\ obs'[h].outcome = "decode_error"
             /\ obs'[h].sent = <<>>
             /\ obs'[h].upstream = <<>>
             /\ cache' = cache
             /\ cache_lock' = cache_lock
             /\ cache_lock # h
             /\ \A t \in Threads \ {h} : pc'[t] = pc[t]
             /\ dispatched' = dispatched
             /\ file' = file]_vars

\* Scenario D: the first request failed to decode and ended, the second one
\* was answered.
C9_Witness ==
    /\ pc[<<"h", 1>>] = "done"
    /\ obs[<<"h", 1>>].outcome = "decode_error"
    /\ pc[<<"h", 2>>] = "ret"
    /\ obs[<<"h", 2>>].outcome \in {"hit", "miss_ok"}
    /\ Len(obs[<<"h", 2>>].sent) = 1

\* thread h leaves the upstream exchange through the except clause
UpstreamFailStep(h) ==
    pc[h] \in {"up_send", "up_recv"} /\ pc'[h] = "ret"

\* C10: upstream failure.  When the upstream exchange of thread h fails, h
\* holds no lock, has sent the client nothing, has sent the upstream at most
\* one datagram, has inserted nothing, and ends; the map, the lock and every
\* other thread are left as they were.
C10_UpstreamFailure ==
    [][\A h \in Handlers :
          UpstreamFailStep(h) =>
             /\ obs'[h].outcome = "upstream_error"
             /\ obs'[h].sent = <<>>
             /\ Len(obs'[h].upstream) <= 1
             /\ obs'[h].stamps = <<>>
             /\ cache' = cache
             /\ cache_lock # h
             /\ cache_lock' = cache_lock
             /\ \A t \in Threads \ {h} : pc'[t] = pc[t]]_vars

\* One request timed out after its query went upstream, and another request
\* was answered from the upstream.
C10_Witness ==
    \E h, g \in Handlers :
        /\ obs[h].outcome = "upstream_error"
        /\ pc[h] = "ret"
        /\ obs[h].upstream = <<loc[h].data>>
        /\ pc[g] = "ret"
        /\ obs[g].outcome = "miss_ok"
        /\ Len(obs[g].sent) = 1

\* C11: load never fails the startup.  Whatever the snapshot file holds,
\* load_cache does not end the process, and after a missing, corrupt or
\* wrongly shaped snapshot run_dns_server goes on with an empty map.
C11_LoadNeverFails ==
    /\ pc[MainT] # "crashed"
    /\ (pc[MainT] = "start_sweep" /\ file.kind \in {"missing", "corrupt", "badshape"})
          => cache = EmptyCache

\* the places of the main thread inside the try block of run_dns_server
InServerLoop == {"bind", "recv", "dispatch"}

\* thread t moves from one place to another
Moves(t) == pc'[t] # pc[t]

KeptAt(r, k, L) == SelectSeq(r[k], LAMBDA e : L - e.timestamp < e.ttl)

\* C13: restart expiry.  The map load_cache installs holds, for every key of
\* the snapshot, exactly the entries with L - timestamp < ttl (L the time
\* load_cache read, timestamp the one stored in the snapshot), in their
\* order and with their fields, and no key whose entries were all dropped.
C13_RestartExpiry ==
    pc[MainT] = "load_print" =>
        /\ raw = json_load(file)
        /\ DOMAIN cache = {k \in DOMAIN raw : KeptAt(raw, k, lnow) # <<>>}
        /\ \A k \in DOMAIN cache : cache[k] = KeptAt(raw, k, lnow)

\* A snapshot written by a run that ended at time 0 is loaded at time 1: its
\* entry of ttl 1 is dropped and its key is absent.
C13_Witness ==
    /\ pc[MainT] = "load_print"
    /\ lnow = 1
    /\ saved.map = raw
    /\ \E k \in DOMAIN raw :
          /\ k \notin DOMAIN cache
          /\ \E e \in Range(raw[k]) : e.timestamp = 0 /\ e.ttl = 1

\* the places of a request thread, in the order of handle_request's statements
StepsAfter(place) ==
    CASE place = "idle" -> {"parse"}
      [] place = "parse" -> {"acq_check", "ret"}
      [] place = "acq_check" -> {"hit_send", "up_send"}
      [] place = "hit_send" -> {"ret"}
      [] place = "up_send" -> {"up_recv", "ret"}
      [] place = "up_recv" -> {"relay", "ret"}
      [] place = "relay" -> {"acq_insert", "ret"}
      [] place = "acq_insert" -> {"insert"}
      [] place = "insert" -> {"ret"}
      [] place = "ret" -> {"done"}
      [] OTHER -> {}

\* C14: per-request ordering.  A request thread goes through decode, cache
\* check, forward, relay and insert in that order.  It checks the cache only
\* with a decoded query; it has sent the upstream something only after its
\* check found no live entry; it receives a reply only after the forward;
\* and it inserts only records of the reply it has already sent the client.
C14_RequestOrdering ==
    [][\A h \in Handlers :
          /\ Moves(h) => pc'[h] \in StepsAfter(pc[h])
          /\ pc'[h] = "acq_check" =>
                /\ parse_ok(loc'[h].data)
                /\ loc'[h].key = <<loc'[h].data.qtype, loc'[h].data.qname>>
                /\ obs'[h].upstream = <<>>
                /\ obs'[h].sent = <<>>
          /\ obs'[h].upstream # <<>> =>
                /\ pc'[h] \in {"up_recv", "relay", "acq_insert", "insert", "ret"}
                /\ loc'[h].valid_records = <<>>
                /\ loc'[h].key \notin DOMAIN obs'[h].before
                      \/ pc'[h] \in {"insert", "ret"}
                      \/ \A e \in Range(obs'[h].before[loc'[h].key]) :
                            ~(loc'[h].now - e.timestamp < e.ttl)
          /\ pc'[h] = "relay" => obs'[h].upstream = <<loc'[h].data>> /\ obs'[h].sent = <<>>
          /\ (pc'[h] \in {"acq_insert", "insert"} \/ obs'[h].stamps # <<>>) =>
                /\ obs'[h].sent = <<loc'[h].response>>
                /\ loc'[h].records = loc'[h].response.answers
                /\ Len(obs'[h].stamps) = (IF pc'[h] = "acq_insert" THEN 0
                                          ELSE loc'[h].idx - 1)]_vars

\* A thread that has gone all the way: one datagram upstream, the reply
\* relayed, and then its record appended.
C14_Witness ==
    \E h \in Handlers :
        /\ pc[h] = "ret"
        /\ obs[h].outcome = "miss_ok"
        /\ obs[h].upstream = <<loc[h].data>>
        /\ obs[h].sent = <<loc[h].response>>
        /\ Len(obs[h].stamps) = 1
        /\ loc[h].key \in DOMAIN obs[h].before

\* C15: suspension points are outside the lock.  A thread waiting in the
\* upstream recvfrom or in the sweep loop's sleep does not hold cache_lock.
C15_SuspendedWithoutLock ==
    /\ \A h \in Handlers : pc[h] = "up_recv" => cache_lock # h
    /\ pc[SweepT] = "sleep" => cache_lock # SweepT
    /\ (cache_lock # NoThread /\ cache_lock \in Threads) =>
          pc[cache_lock] \in {"hit_send", "insert", "save_dump"}

\* While one thread waits for the upstream, another has missed, inserted and
\* finished, and the sweep thread has made a pass and holds the lock for its
\* save.
C15_Witness ==
    \E h, g \in Handlers :
        /\ pc[h] = "up_recv"
        /\ pc[g] = "done"
        /\ obs[g].outcome = "miss_ok"
        /\ pc[SweepT] = "save_dump"
        /\ cache_lock = SweepT

\* thread h runs one iteration of its insert loop
InsertStep(h) == pc[h] = "insert" /\ loc'[h].idx = loc[h].idx + 1

\* C16: insert is append-only and never deduplicates.  One iteration of the
\* insert loop leaves every other key as it was and makes the record's key
\* hold its previous sequence followed by the new entry, whether or not an
\* equal entry is already there.
C16_InsertAppends ==
    [][\A h \in Handlers :
          InsertStep(h) =>
             LET rec == loc[h].records[loc[h].idx]
                 k == <<rec.type, rec.name>>
                 entry == [name |-> rec.name, type |-> rec.type, data |-> rec.data,
                           ttl |-> rec.ttl, timestamp |-> clock]
             IN /\ DOMAIN cache' = DOMAIN cache \cup {k}
                /\ cache'[k] = EntriesOf(cache, k) \o <<entry>>
                /\ \A j \in DOMAIN cache \ {k} : cache'[j] = cache[j]]_vars

\* Two threads missed on the same key, both asked the upstream, and the key
\* now holds the entry of each fetch, the two being equal record for record.
C16_Witness ==
    \E h, g \in Handlers :
        /\ h # g
        /\ loc[h].key = loc[g].key
        /\ pc[h] = "ret" /\ obs[h].outcome = "miss_ok"
        /\ MissDone(g)
        /\ obs[h].upstream # <<>> /\ obs[g].upstream # <<>>
        /\ loc[h].key \notin DOMAIN obs[h].before
        /\ loc[g].valid_records = <<>>
        /\ Len(EntriesOf(cache, loc[h].key)) = 2
        /\ cache[loc[h].key][1].data = cache[loc[h].key][2].data
        /\ cache[loc[h].key][1].ttl = cache[loc[h].key][2].ttl

\* the process has ended, and the map with it
ServiceOver == pc[MainT] \in {"dead", "crashed"}

\* an entry of the map whose ttl has run out
ExpiredEntryStored ==
    \E e \in AllEntries(cache) : clock >= e.timestamp + e.ttl

\* C17: traffic-independent eviction.  With fair scheduling and no further
\* requests, from some point on the map of the running service holds no
\* entry whose ttl has run out: every expired entry is eventually removed.
C17_SweepEvictsEventually == <>[](ServiceOver \/ ~ExpiredEntryStored)

\* thread t completes the write of save_cache
SaveStep(t) == pc[t] = "save_dump" /\ pc'[t] \in {"s_print", "exited"}

\* C18: persist is an unfiltered, consistent snapshot.  While a thread is
\* inside the write of save_cache no step changes the map; the completed
\* write leaves in the file the whole map, every entry of every key, expired
\* or not, and leaves the map as it was.
C18_PersistSnapshot ==
    [][\A t \in Savers :
          /\ pc[t] = "save_dump" => cache' = cache
          /\ SaveStep(t) =>
                /\ file'.kind = "json"
                /\ {file'.items[i].key : i \in 1..Len(file'.items)} = DOMAIN cache
                /\ Len(file'.items) = Cardinality(DOMAIN cache)
                /\ \A i \in 1..Len(file'.items) :
                      file'.items[i].value = cache[file'.items[i].key]
                /\ json_load(file') = cache]_vars

\* A completed write whose snapshot holds an entry that had already expired.
C18_Witness ==
    \E t \in Savers :
        /\ pc[t] \in {"s_print", "exited"}
        /\ file.kind = "json"
        /\ json_load(file) = cache
        /\ \E e \in AllEntries(json_load(file)) :
              e.ttl # 0 /\ clock >= e.timestamp + e.ttl

\* C19: no empty buckets.  Whenever cache_lock is free, every key of the map
\* maps to a non-empty sequence.
C19_NoEmptyBuckets ==
    cache_lock = NoThread => \A k \in DOMAIN cache : cache[k] # <<>>

\* Two threads inserted under two keys; a sweep pass then emptied one bucket,
\* deleted its key and kept the other.
C19_Witness ==
    /\ cache_lock = NoThread
    /\ pc[SweepT] = "save_acq"
    /\ DOMAIN cache = {<<5, "a">>}
    /\ \E h \in Handlers :
          /\ pc[h] = "ret"
          /\ obs[h].outcome = "miss_ok"
          /\ Len(obs[h].stamps) = 1
          /\ loc[h].records[1].type = 1
          /\ <<5, "a">> \in DOMAIN obs[h].before

\* the places where a thread is about to acquire cache_lock
AcquirePlaces == {"load_acq", "load_acq_bad", "acq_check", "acq_insert", "save_acq", "s_acq"}
\* the places inside a `with cache_lock` block
LockedPlaces == {"hit_send", "insert", "save_dump"}
Waiting(t) == pc[t] \in AcquirePlaces

\* C20: lock deadlock-freedom.  A thread about to acquire cache_lock does not
\* hold it; the holder is always inside a with block, and whatever way a
\* thread leaves the block (a raising send or write included) the lock is
\* free afterwards; and under fair scheduling every thread waiting for the
\* lock gets past the acquisition.
C20_LockDeadlockFree ==
    /\ [](\A t \in Threads :
             /\ Waiting(t) => cache_lock # t
             /\ cache_lock = t => pc[t] \in LockedPlaces)
    /\ [][\A t \in Threads :
             (cache_lock = t /\ Moves(t)) => cache_lock' = NoThread]_vars
    /\ \A t \in Threads : Waiting(t) ~> ~Waiting(t)

\* The sweep thread's write raised after truncating the file, and a request
\* thread has since acquired the lock for its inserts.
C20_Witness ==
    \E h \in Handlers :
        /\ pc[SweepT] = "s_dead"
        /\ pc[MainT] = "recv"
        /\ raw # EmptyCache
        /\ file = FileCorrupt
        /\ pc[h] = "insert"
        /\ cache_lock = h
====
